---------------------------- MODULE Spec2Model ----------------------------
(***************************************************************************)
(* Token lifecycle and cached status endpoint of src/py_app/index.py, and  *)
(* the fixed-secret variant of the status endpoint in src/index.py.        *)
(*                                                                         *)
(* State: the rotating signing secret, the last issued token, the token    *)
(* blacklist (ledger) and the configuration cache.  One action per route   *)
(* handler; a guarded route's action includes the authenticate_token       *)
(* wrapper.  Requests are handled one at a time in Spec.                   *)
(*                                                                         *)
(* Cryptography is symbolic: a secret is the index of the os.urandom draw  *)
(* that produced it (distinct draws give distinct secrets), and an HS256  *)
(* signature is the pair <<secret, signed payload>>, so a signature        *)
(* verifies only under the secret that made it and only for the payload    *)
(* it was made for.                                                        *)
(***************************************************************************)
EXTENDS Integers, Sequences, FiniteSets, TLC

VARIABLES
    program,              \* which of the two applications is running
    current_secret_key,   \* py_app/index.py:14  the live signing secret
    current_token,        \* py_app/index.py:15  last issued token or None
    token_blacklist,      \* py_app/index.py:16  set of consumed tokens
    config_cache,         \* py_app/index.py:33  {metadata, sha, last_updated}
    urandom,              \* number of secrets drawn from os.urandom so far
    now,                  \* wall clock, in seconds
    issued,               \* history: the tokens returned by login/refresh, in order
    consumed,             \* history: tokens with which the /status handler was entered
    last,                 \* the last request served and its response
    thr                   \* requests in progress, one per server thread

vars == <<program, current_secret_key, current_token, token_blacklist, config_cache,
          urandom, now, issued, consumed, last, thr>>

---------------------------------------------------------------------------
(* Bounds *)

\* secrets that may be drawn in one run (the initial one included)
MaxKeys == 3
\* server threads handling requests at the same time
NThreads == 2
\* clock ticks in one run
MaxTicks == 1
\* seconds per clock tick
TickSecs == 3600

(* Program constants *)

CACHE_DURATION_MS == 300000
\* TOKEN_EXPIRATION_TIME = '1h', in seconds
TOKEN_EXPIRATION_TIME == 3600

RESPONSE_STATUS(name) ==
    CASE name = "UNAUTHORIZED" -> 401
      [] name = "FORBIDDEN"    -> 403

ERROR_MESSAGES(name) ==
    CASE name = "MISSING_TOKEN" -> "Unauthorized: Missing token"
      [] name = "TOKEN_EXPIRED" -> "Unauthorized: Token expired"
      [] name = "TOKEN_REUSED"  -> "Forbidden: Token has already been used"
      [] name = "INVALID_TOKEN" -> "Forbidden: Invalid token"

---------------------------------------------------------------------------
(* Tokens *)

\* absent "exp" claim
NoExp == -1

\* the payload login signs
User == [id |-> 1, username |-> "exampleuser", exp |-> NoExp]
\* payloads a client can write into a token it fabricates or alters
Altered == [id |-> 2, username |-> "admin", exp |-> 0]
NoPayload == [id |-> 0, username |-> "", exp |-> NoExp]
Payloads == {User, Altered}

\* HMAC of a payload under a key
HS256(key, payload) == <<key, payload>>
NoSig == <<0, NoPayload>>

\* Python None / the empty string: the falsy token
None == [segments |-> 0, payload |-> NoPayload, sig |-> NoSig]
\* a string that is not a three-segment JWT
Garbage == [segments |-> 1, payload |-> NoPayload, sig |-> NoSig]

\* jwt.encode(payload, key, algorithm="HS256")
jwt_encode(payload, key) ==
    [segments |-> 3, payload |-> payload, sig |-> HS256(key, payload)]

\* jwt.decode(token, key, algorithms=["HS256"], options={"verify_exp": ...})
\* at time t: structure, then signature, then the exp claim.
jwt_decode(token, key, verify_exp, t) ==
    IF token.segments # 3
    THEN [exc |-> "DecodeError", payload |-> NoPayload]
    ELSE IF token.sig # HS256(key, token.payload)
    THEN [exc |-> "InvalidSignatureError", payload |-> NoPayload]
    ELSE IF verify_exp /\ token.payload.exp # NoExp /\ token.payload.exp <= t
    THEN [exc |-> "ExpiredSignatureError", payload |-> NoPayload]
    ELSE [exc |-> "none", payload |-> token.payload]

\* exceptions derived from jwt.InvalidTokenError
InvalidTokenError ==
    {"DecodeError", "InvalidSignatureError", "ExpiredSignatureError"}

\* Authorization headers: words = number of space-separated parts
\* (0: no header), cred = the second part.
NoHeader == [words |-> 0, cred |-> None]
Bearer(tok) == [words |-> 2, cred |-> tok]
BearerOnly == [words |-> 1, cred |-> None]

\* what a client can present: tokens it was given, the same tokens with the
\* payload altered under the old signature, and non-JWT strings
IssuedTokens == {issued[i].token : i \in 1..Len(issued)}
\* the token returned by the most recent login/refresh
Latest == IF issued = <<>> THEN None ELSE issued[Len(issued)].token
Forgeries == {[segments |-> 3, payload |-> p, sig |-> tk.sig] :
                 p \in Payloads \ {User}, tk \in IssuedTokens}
Presentable == IssuedTokens \cup Forgeries \cup {Garbage}
Headers == {NoHeader, BearerOnly, Bearer(None)} \cup {Bearer(tk) : tk \in Presentable}

---------------------------------------------------------------------------
(* Helpers *)

\* variant: a fixed secret instead of a random one
generate_secret_key_static(n) == 1

\* os.urandom(64).hex(): the n-th draw
generate_secret_key(n) == n + 1

\* req.headers.get("Authorization"), split(" ")[1]
extract_auth_token(header) ==
    IF header.words = 0 THEN [exc |-> "none", token |-> None]
    ELSE IF header.words < 2 THEN [exc |-> "IndexError", token |-> None]
    ELSE [exc |-> "none", token |-> header.cred]


\* truthiness of a token string: None and "" are falsy
truthy(token) == token.segments # 0

---------------------------------------------------------------------------
(* Middleware: authenticate_token *)

\* a send_error_response(...) return of the wrapper: the handler is not called
Denied(status_code, message, blacklist) ==
    [pass |-> FALSE, status |-> status_code, error |-> message,
     blacklist |-> blacklist, user |-> NoPayload]

\* variant: the token is never recorded
consume_never(path, token, blacklist) == blacklist

\* variant: the token is recorded on every route
consume_always(path, token, blacklist) == blacklist \cup {token}

\* lines 91-92: record the token unless the route is /protected
consume(path, token, blacklist) ==
    IF path # "/protected" THEN blacklist \cup {token} ELSE blacklist

\* variant: only an expired token is refused by the decoding step
guard_decode_lenient(path, token, key, blacklist, t) ==
    LET d == jwt_decode(token, key, TRUE, t) IN
    IF d.exc = "ExpiredSignatureError"
    THEN Denied(RESPONSE_STATUS("UNAUTHORIZED"), ERROR_MESSAGES("TOKEN_EXPIRED"), blacklist)
    ELSE [pass |-> TRUE, status |-> 200, error |-> "",
          blacklist |-> consume(path, token, blacklist), user |-> d.payload]

\* lines 88-97: decode under the live secret, record, map the exceptions
guard_decode(path, token, key, blacklist, t) ==
    LET d == jwt_decode(token, key, TRUE, t) IN
    IF d.exc = "ExpiredSignatureError"
    THEN Denied(RESPONSE_STATUS("UNAUTHORIZED"), ERROR_MESSAGES("TOKEN_EXPIRED"), blacklist)
    ELSE IF d.exc \in InvalidTokenError
    THEN Denied(RESPONSE_STATUS("UNAUTHORIZED"), ERROR_MESSAGES("INVALID_TOKEN"), blacklist)
    ELSE [pass |-> TRUE, status |-> 200, error |-> "",
          blacklist |-> consume(path, token, blacklist), user |-> d.payload]

\* variant: the blacklist test skips the exempt route
guard_blacklist_exempt(path, token, key, blacklist, t) ==
    IF path # "/protected" /\ token \in blacklist
    THEN Denied(RESPONSE_STATUS("FORBIDDEN"), ERROR_MESSAGES("TOKEN_REUSED"), blacklist)
    ELSE guard_decode(path, token, key, blacklist, t)

\* variant: the blacklist test comes after the decoding
guard_blacklist_late(path, token, key, blacklist, t) ==
    LET r == guard_decode(path, token, key, blacklist, t) IN
    IF ~r.pass THEN r
    ELSE IF token \in blacklist
    THEN Denied(RESPONSE_STATUS("FORBIDDEN"), ERROR_MESSAGES("TOKEN_REUSED"), blacklist)
    ELSE r

\* lines 86-87: the blacklist test, before any decoding
guard_blacklist(path, token, key, blacklist, t) ==
    IF token \in blacklist
    THEN Denied(RESPONSE_STATUS("FORBIDDEN"), ERROR_MESSAGES("TOKEN_REUSED"), blacklist)
    ELSE guard_decode(path, token, key, blacklist, t)

\* the wrapper up to (not including) the call of the wrapped handler
authenticate_token(path, header, key, blacklist, t) ==
    LET x == extract_auth_token(header) IN
    IF x.exc # "none"
    THEN Denied(500, x.exc, blacklist)
    ELSE IF ~truthy(x.token)
    THEN Denied(RESPONSE_STATUS("UNAUTHORIZED"), ERROR_MESSAGES("MISSING_TOKEN"), blacklist)
    ELSE guard_blacklist(path, x.token, key, blacklist, t)

---------------------------------------------------------------------------
(* Token issuance *)

\* generate_token(payload): draw a secret, install it, sign the payload
generate_token(payload, n) ==
    LET key == generate_secret_key(n) IN
    [key |-> key, token |-> jwt_encode(payload, key)]

\* variant: the username is not copied into the new payload
refresh_payload_nouser(decoded) ==
    [id |-> decoded.id, username |-> "", exp |-> NoExp]

\* the payload refresh builds from the decoded token (line 123)
refresh_payload(decoded) ==
    [id |-> decoded.id, username |-> decoded.username, exp |-> NoExp]

\* refresh(): what the view does with the presented header;
\* rotate tells whether generate_token is called, with payload
refresh(header, key, n) ==
    LET x == extract_auth_token(header)
        d == jwt_decode(x.token, key, FALSE, 0)
        none == [rotate |-> FALSE, status |-> 0, error |-> "", key |-> key, token |-> None]
    IN
    IF x.exc # "none"
    THEN [none EXCEPT !.status = 500, !.error = x.exc]
    ELSE IF ~truthy(x.token)
    THEN [none EXCEPT !.status = RESPONSE_STATUS("UNAUTHORIZED"),
                      !.error = ERROR_MESSAGES("MISSING_TOKEN")]
    ELSE IF d.exc \in InvalidTokenError
    \* "except jwt.InvalidTokenError: pass": the view returns None, which
    \* Flask answers with 500 (TypeError: did not return a valid response)
    THEN [none EXCEPT !.status = 500, !.error = "TypeError"]
    ELSE IF d.payload.id = 0
    THEN [none EXCEPT !.status = 400,
                      !.error = "Token is still valid, no need for refresh"]
    ELSE LET g == generate_token(refresh_payload(d.payload), n) IN
         [rotate |-> TRUE, status |-> 200, error |-> "", key |-> g.key, token |-> g.token]

---------------------------------------------------------------------------
(* Configuration cache *)

NoneMeta == [kind |-> "None", size |-> 0, description |-> "", version |-> ""]
EmptyDoc == [kind |-> "dict", size |-> 0, description |-> "", version |-> ""]
Doc1 == [kind |-> "dict", size |-> 2, description |-> "my app", version |-> "1.0"]

\* contents of ./metadata.json; "absent": the file does not exist
Files == {"absent", "{", "{}", "doc1"}
\* outcome of `git rev-parse HEAD`: exit status and stdout
\* (rc -1: the git executable could not be started)
Gits == {[rc |-> -1, stdout |-> ""], [rc |-> 128, stdout |-> ""],
         [rc |-> 0, stdout |-> "aaa\n"], [rc |-> 0, stdout |-> "bbb\n"]}
NoGit == [rc |-> 0, stdout |-> ""]

\* json.loads
json_loads(text) ==
    CASE text = "{}"   -> [exc |-> "none", value |-> EmptyDoc]
      [] text = "doc1" -> [exc |-> "none", value |-> Doc1]
      [] OTHER         -> [exc |-> "JSONDecodeError", value |-> NoneMeta]

\* str.strip on the outputs of Gits
strip(s) ==
    CASE s = "aaa\n" -> "aaa"
      [] s = "bbb\n" -> "bbb"
      [] OTHER       -> s

\* get_git_sha(): check=True raises on a non-zero exit status
get_git_sha(git) ==
    IF git.rc = -1 THEN [exc |-> "FileNotFoundError", sha |-> ""]
    ELSE IF git.rc # 0 THEN [exc |-> "CalledProcessError", sha |-> ""]
    ELSE [exc |-> "none", sha |-> strip(git.stdout)]

\* truthiness of config_cache["metadata"]: None and {} are falsy
meta_truthy(m) == m.kind = "dict" /\ m.size > 0

\* variant: the cached entry is never reused
load_configuration_nocache(cache, t, file, git) ==
    LET current_timestamp == t * 1000
        parsed == json_loads(file)
        g == get_git_sha(git)
    IN
    IF file = "absent" \/ parsed.exc # "none" \/ g.exc # "none"
    THEN [exc |-> "Exception", cache |-> cache, read |-> TRUE]
    ELSE [exc |-> "none", read |-> TRUE,
          cache |-> [metadata |-> parsed.value, sha |-> g.sha,
                     last_updated |-> current_timestamp]]

\* load_configuration() at time t (seconds) with the given file and git
load_configuration(cache, t, file, git) ==
    LET current_timestamp == t * 1000
        parsed == json_loads(file)
        g == get_git_sha(git)
    IN
    IF meta_truthy(cache.metadata)
       /\ (current_timestamp - cache.last_updated) < CACHE_DURATION_MS
    THEN [exc |-> "none", cache |-> cache, read |-> FALSE]
    ELSE IF file = "absent" \/ parsed.exc # "none" \/ g.exc # "none"
    THEN [exc |-> "Exception", cache |-> cache, read |-> TRUE]
    ELSE [exc |-> "none", read |-> TRUE,
          cache |-> [metadata |-> parsed.value, sha |-> g.sha,
                     last_updated |-> current_timestamp]]

\* os.environ.get("BUILD_NUMBER", "0")
BUILD_NUMBER == "0"

NoApp == [description |-> "", version |-> <<"", "">>, sha |-> ""]

\* the body of status(), after the guard: returns the response and the
\* new cache and current_token
status(cache, tok, t, file, git) ==
    LET c == load_configuration(cache, t, file, git)
        metadata == c.cache.metadata
    IN
    IF c.exc # "none"
    THEN [status |-> 500, error |-> "Internal Server Error", app |-> NoApp,
          cache |-> c.cache, current_token |-> tok, read |-> c.read]
    ELSE IF metadata.size < 2
    \* KeyError on metadata["description"], after current_token = None
    THEN [status |-> 500, error |-> "Internal Server Error", app |-> NoApp,
          cache |-> c.cache, current_token |-> None, read |-> c.read]
    ELSE [status |-> 200, error |-> "",
          app |-> [description |-> metadata.description,
                   version |-> <<metadata.version, BUILD_NUMBER>>,
                   sha |-> c.cache.sha],
          cache |-> c.cache, current_token |-> None, read |-> c.read]

---------------------------------------------------------------------------
(* Requests *)

\* the record of a served request: the response, the state it met, and for
\* a /status handler what ./metadata.json and git held (file, git) and
\* whether load_configuration read them (read)
ServedEnv(op, header, status_code, error, token, ran, app, read, file, git) ==
    [op |-> op, header |-> header,
     status |-> status_code, error |-> error, token |-> token,
     ran |-> ran, app |-> app, read |-> read, file |-> file, git |-> git,
     \* the state the request met
     key |-> current_secret_key, blacklist |-> token_blacklist, at |-> now,
     latest |-> Latest,
     \* seq alternates from one request to the next; again: the request
     \* before this one had the same route and header
     seq |-> 1 - last.seq, again |-> (last.op = op /\ last.header = header)]

Served(op, header, status_code, error, token, ran, app) ==
    ServedEnv(op, header, status_code, error, token, ran, app, FALSE, "", NoGit)

Threads == 1..NThreads

\* a thread that handles no request; the other fields are the locals of the
\* request in progress and, at "done", its response
Idle == [pc |-> "idle", op |-> "", header |-> NoHeader, key |-> 0,
         payload |-> NoPayload, ts |-> 0, meta |-> NoneMeta, sha |-> "",
         shaThen |-> "", tok |-> None, status |-> 0, error |-> "",
         ran |-> FALSE, app |-> NoApp]

Init ==
    /\ thr = [t \in Threads |-> Idle]
    /\ program = "py_app"
    /\ current_secret_key = generate_secret_key(0)
    /\ current_token = None
    /\ token_blacklist = {}
    /\ config_cache = [metadata |-> NoneMeta, sha |-> "", last_updated |-> 0]
    /\ urandom = 1
    /\ now = 0
    /\ issued = <<>>
    /\ consumed = {}
    /\ last = [op |-> "start", header |-> NoHeader, status |-> 0,
               error |-> "", token |-> None, ran |-> FALSE, app |-> NoApp,
               read |-> FALSE, file |-> "", git |-> NoGit,
               key |-> 0, blacklist |-> {}, at |-> 0, latest |-> None,
               seq |-> 0, again |-> FALSE]

\* POST /login
login ==
    /\ program = "py_app"
    /\ urandom < MaxKeys
    /\ LET g == generate_token(User, urandom) IN
        /\ current_secret_key' = g.key
        /\ current_token' = g.token
        /\ urandom' = urandom + 1
        /\ issued' = Append(issued, [token |-> g.token, at |-> now])
        /\ last' = Served("login", NoHeader, 200, "", g.token, TRUE, NoApp)
    /\ UNCHANGED <<thr, program, token_blacklist, config_cache, now, consumed>>

\* variant: a successful refresh records the presented token
Refresh_consuming ==
    \E header \in Headers :
        LET r == refresh(header, current_secret_key, urandom) IN
        /\ program = "py_app"
        /\ r.rotate => urandom < MaxKeys
        /\ current_secret_key' = r.key
        /\ current_token' = IF r.rotate THEN r.token ELSE current_token
        /\ urandom' = IF r.rotate THEN urandom + 1 ELSE urandom
        /\ issued' = IF r.rotate
                     THEN Append(issued, [token |-> r.token, at |-> now])
                     ELSE issued
        /\ token_blacklist' = IF r.rotate THEN token_blacklist \cup {header.cred}
                              ELSE token_blacklist
        /\ last' = Served("refresh", header, r.status, r.error, r.token, TRUE, NoApp)
        /\ UNCHANGED <<thr, program, config_cache, now, consumed>>

\* POST /refresh
Refresh ==
    \E header \in Headers :
        LET r == refresh(header, current_secret_key, urandom) IN
        /\ program = "py_app"
        /\ r.rotate => urandom < MaxKeys
        /\ current_secret_key' = r.key
        /\ current_token' = IF r.rotate THEN r.token ELSE current_token
        /\ urandom' = IF r.rotate THEN urandom + 1 ELSE urandom
        /\ issued' = IF r.rotate
                     THEN Append(issued, [token |-> r.token, at |-> now])
                     ELSE issued
        /\ last' = Served("refresh", header, r.status, r.error, r.token, TRUE, NoApp)
        /\ UNCHANGED <<thr, program, token_blacklist, config_cache, now, consumed>>

\* GET /protected
protected ==
    \E header \in Headers :
        LET a == authenticate_token("/protected", header, current_secret_key,
                                    token_blacklist, now) IN
        /\ program = "py_app"
        /\ token_blacklist' = a.blacklist
        /\ last' = Served("protected", header, a.status, a.error, None, a.pass, NoApp)
        /\ UNCHANGED <<thr, program, current_secret_key, current_token, config_cache, urandom,
                       now, issued, consumed>>

\* GET /
index ==
    /\ program = "py_app"
    /\ last' = Served("index", NoHeader, 200, "", None, TRUE, NoApp)
    /\ UNCHANGED <<thr, program, current_secret_key, current_token, token_blacklist,
                   config_cache, urandom, now, issued, consumed>>

\* GET /status
Status ==
    \E header \in Headers :
        LET a == authenticate_token("/status", header, current_secret_key,
                                    token_blacklist, now) IN
        /\ program = "py_app"
        /\ token_blacklist' = a.blacklist
        /\ IF a.pass
           THEN \E file \in Files, git \in Gits :
                LET s == status(config_cache, current_token, now, file, git) IN
                /\ config_cache' = s.cache
                /\ current_token' = s.current_token
                /\ consumed' = consumed \cup {header.cred}
                /\ last' = ServedEnv("status", header, s.status, s.error, None,
                                      TRUE, s.app, s.read, file, git)
           ELSE /\ last' = Served("status", header, a.status, a.error, None, FALSE, NoApp)
                /\ UNCHANGED <<config_cache, current_token, consumed>>
        /\ UNCHANGED <<thr, program, current_secret_key, urandom, now, issued>>

\* the clock advances
Tick ==
    /\ now < MaxTicks * TickSecs
    /\ now' = now + TickSecs
    /\ UNCHANGED <<thr, program, current_secret_key, current_token, token_blacklist,
                   config_cache, urandom, issued, consumed, last>>

Next == login \/ Refresh \/ protected \/ index \/ Status \/ Tick

Spec == Init /\ [][Next]_vars

---------------------------------------------------------------------------
(* src/index.py: the status endpoint behind a fixed secret *)

\* JWT_SECRET_KEY = 'SECRET_TOKEN': a secret that is no os.urandom draw
JWT_SECRET_KEY == 0

\* tokens a client of src/index.py can hold: signed by whoever knows the
\* fixed secret (without and with an exp claim), signed under another
\* secret, or not a JWT
RootPresentable ==
    {jwt_encode(User, JWT_SECRET_KEY), jwt_encode(Altered, JWT_SECRET_KEY),
     jwt_encode(User, 1), Garbage}
RootHeaders ==
    {NoHeader, BearerOnly, Bearer(None)} \cup {Bearer(tk) : tk \in RootPresentable}

\* handle_error_response(response, status_code, message): the status code
\* is set on the response passed in, and a new jsonify(...) response, with
\* the default status 200, is what is returned
handle_error_response(status_code, message) ==
    [status |-> 200, error |-> message]

\* get_git_sha() of src/index.py: Popen + communicate, the exit status is
\* not looked at; only a failure to start git raises
root_get_git_sha(git) ==
    IF git.rc = -1 THEN [exc |-> "FileNotFoundError", sha |-> ""]
    ELSE [exc |-> "none", sha |-> strip(git.stdout)]

\* load_configuration() of src/index.py
root_load_configuration(cache, t, file, git) ==
    LET current_timestamp == t * 1000
        parsed == json_loads(file)
        g == root_get_git_sha(git)
    IN
    IF meta_truthy(cache.metadata)
       /\ (current_timestamp - cache.last_updated) < CACHE_DURATION_MS
    THEN [exc |-> "none", cache |-> cache, read |-> FALSE]
    ELSE IF file = "absent" \/ parsed.exc # "none" \/ g.exc # "none"
    THEN [exc |-> "RuntimeError", cache |-> cache, read |-> TRUE]
    ELSE [exc |-> "none", read |-> TRUE,
          cache |-> [metadata |-> parsed.value, sha |-> g.sha,
                     last_updated |-> current_timestamp]]

\* status() of src/index.py; exc: the exception that leaves the view
root_status(cache, t, file, git) ==
    LET c == root_load_configuration(cache, t, file, git)
        metadata == c.cache.metadata
        e == handle_error_response(500, "Internal Server Error")
    IN
    IF c.exc # "none"
    THEN [exc |-> "none", status |-> e.status, error |-> e.error, app |-> NoApp,
          cache |-> c.cache, read |-> c.read]
    ELSE IF metadata.size < 2
    THEN [exc |-> "KeyError", status |-> 0, error |-> "", app |-> NoApp,
          cache |-> c.cache, read |-> c.read]
    ELSE [exc |-> "none", status |-> 200, error |-> "",
          app |-> [description |-> metadata.description,
                   version |-> <<metadata.version, BUILD_NUMBER>>,
                   sha |-> c.cache.sha],
          cache |-> c.cache, read |-> c.read]

\* the wrapper of src/index.py up to the call of the wrapped handler
root_authenticate_token(header, t) ==
    LET x == extract_auth_token(header)
        d == jwt_decode(x.token, JWT_SECRET_KEY, TRUE, t)
        deny(e) == [pass |-> FALSE, status |-> e.status, error |-> e.error]
    IN
    IF x.exc # "none"
    THEN [pass |-> FALSE, status |-> 500, error |-> x.exc]
    ELSE IF ~truthy(x.token)
    THEN deny(handle_error_response(401, "Unauthorized: Missing token"))
    ELSE IF d.exc = "ExpiredSignatureError"
    THEN deny(handle_error_response(401, "Unauthorized: Token expired"))
    ELSE IF d.exc \in InvalidTokenError
    THEN deny(handle_error_response(401, "Unauthorized: Invalid token"))
    ELSE [pass |-> TRUE, status |-> 200, error |-> ""]

InitRoot ==
    /\ thr = [t \in Threads |-> Idle]
    /\ program = "root"
    /\ current_secret_key = JWT_SECRET_KEY
    /\ current_token = None
    /\ token_blacklist = {}
    /\ config_cache = [metadata |-> NoneMeta, sha |-> "", last_updated |-> 0]
    /\ urandom = 0
    /\ now = 0
    /\ issued = <<>>
    /\ consumed = {}
    /\ last = [op |-> "start", header |-> NoHeader, status |-> 0,
               error |-> "", token |-> None, ran |-> FALSE, app |-> NoApp,
               read |-> FALSE, file |-> "", git |-> NoGit,
               key |-> 0, blacklist |-> {}, at |-> 0, latest |-> None,
               seq |-> 0, again |-> FALSE]

\* GET / of src/index.py
RootIndex ==
    /\ program = "root"
    /\ last' = Served("index", NoHeader, 200, "", None, TRUE, NoApp)
    /\ UNCHANGED <<thr, program, current_secret_key, current_token, token_blacklist,
                   config_cache, urandom, now, issued, consumed>>

\* GET /status of src/index.py
RootStatus ==
    \E header \in RootHeaders :
        LET a == root_authenticate_token(header, now) IN
        /\ program = "root"
        /\ IF a.pass
           THEN \E file \in Files, git \in Gits :
                LET s == root_status(config_cache, now, file, git)
                    \* "except Exception" of the wrapper, around the handler
                    e == handle_error_response(
                             401, "Unauthorized: Token authentication failed")
                    r == IF s.exc # "none"
                         THEN [status |-> e.status, error |-> e.error]
                         ELSE [status |-> s.status, error |-> s.error]
                IN
                /\ config_cache' = s.cache
                /\ last' = ServedEnv("status", header, r.status, r.error, None,
                                      TRUE, s.app, s.read, file, git)
           ELSE /\ last' = Served("status", header, a.status, a.error, None, FALSE, NoApp)
                /\ UNCHANGED config_cache
        /\ UNCHANGED <<thr, program, current_secret_key, current_token, token_blacklist,
                       urandom, now, issued, consumed>>

\* either application, requests served one at a time
NextBoth ==
    \/ login \/ Refresh \/ protected \/ index \/ Status \/ Tick
    \/ RootIndex \/ RootStatus

SpecBoth == (Init \/ InitRoot) /\ [][NextBoth]_vars

---------------------------------------------------------------------------
(* src/py_app/index.py with requests handled by several threads at once.   *)
(* A step is one statement of the source that reads or writes the module   *)
(* globals; a thread takes a new request when it is idle or done.          *)

\* the routes wrapped by authenticate_token
Guarded_ops == {"protected", "status"}

\* what clients present here: tokens they were given, or a non-JWT string
ConcHeaders == {Bearer(tk) : tk \in IssuedTokens \cup {Garbage}}

Free(t) == program = "py_app" /\ thr[t].pc \in {"idle", "done"}
Finish(rec, status_code, error) ==
    [rec EXCEPT !.pc = "done", !.status = status_code, !.error = error]

\* login(), line 103: current_secret_key = generate_secret_key()
CLogin(t) ==
    /\ Free(t)
    /\ urandom < MaxKeys
    /\ current_secret_key' = generate_secret_key(urandom)
    /\ urandom' = urandom + 1
    /\ thr' = [thr EXCEPT ![t] =
                 [Idle EXCEPT !.pc = "enc", !.op = "login", !.payload = User,
                              !.key = generate_secret_key(urandom)]]
    /\ UNCHANGED <<program, current_token, token_blacklist, config_cache,
                   now, issued, consumed, last>>

\* refresh(), lines 116-122: extract and decode under the live secret
CRefresh(t) ==
    \E header \in ConcHeaders :
        LET r == refresh(header, current_secret_key, urandom)
            rec == [Idle EXCEPT !.op = "refresh", !.header = header]
        IN
        /\ Free(t)
        /\ thr' = [thr EXCEPT ![t] =
                     IF r.rotate
                     THEN [rec EXCEPT !.pc = "gen", !.payload = r.token.payload]
                     ELSE Finish(rec, r.status, r.error)]
        /\ UNCHANGED <<program, current_secret_key, current_token,
                       token_blacklist, config_cache, urandom, now, issued,
                       consumed, last>>

\* generate_token() called by refresh, line 103
CGen(t) ==
    /\ thr[t].pc = "gen"
    /\ urandom < MaxKeys
    /\ current_secret_key' = generate_secret_key(urandom)
    /\ urandom' = urandom + 1
    /\ thr' = [thr EXCEPT ![t].pc = "enc",
                          ![t].key = generate_secret_key(urandom)]
    /\ UNCHANGED <<program, current_token, token_blacklist, config_cache,
                   now, issued, consumed, last>>

\* line 104: current_token = jwt.encode(payload, current_secret_key)
CEnc(t) ==
    /\ thr[t].pc = "enc"
    /\ current_token' = jwt_encode(thr[t].payload, current_secret_key)
    /\ thr' = [thr EXCEPT ![t].pc = "ret"]
    /\ UNCHANGED <<program, current_secret_key, token_blacklist, config_cache,
                   urandom, now, issued, consumed, last>>

\* line 105: return current_token, sent to the client
CRet(t) ==
    /\ thr[t].pc = "ret"
    /\ thr' = [thr EXCEPT ![t] = [Finish(thr[t], 200, "") EXCEPT
                                     !.tok = current_token, !.ran = TRUE]]
    /\ issued' = IF truthy(current_token)
                 THEN Append(issued, [token |-> current_token, at |-> now])
                 ELSE issued
    /\ UNCHANGED <<program, current_secret_key, current_token, token_blacklist,
                   config_cache, urandom, now, consumed, last>>

\* authenticate_token, lines 83-87: extract, test the blacklist
CGuardCheck(t) ==
    \E op \in Guarded_ops, header \in ConcHeaders :
        LET x == extract_auth_token(header)
            rec == [Idle EXCEPT !.op = op, !.header = header]
        IN
        /\ Free(t)
        /\ thr' = [thr EXCEPT ![t] =
                     IF x.exc # "none" THEN Finish(rec, 500, x.exc)
                     ELSE IF ~truthy(x.token)
                     THEN Finish(rec, RESPONSE_STATUS("UNAUTHORIZED"),
                                 ERROR_MESSAGES("MISSING_TOKEN"))
                     ELSE IF x.token \in token_blacklist
                     THEN Finish(rec, RESPONSE_STATUS("FORBIDDEN"),
                                 ERROR_MESSAGES("TOKEN_REUSED"))
                     ELSE [rec EXCEPT !.pc = "dec"]]
        /\ UNCHANGED <<program, current_secret_key, current_token,
                       token_blacklist, config_cache, urandom, now, issued,
                       consumed, last>>

\* lines 89-96: decode under the live secret; on /protected the view
\* follows at once (it touches no global)
CGuardDecode(t) ==
    LET d == jwt_decode(thr[t].header.cred, current_secret_key, TRUE, now) IN
    /\ thr[t].pc = "dec"
    /\ thr' = [thr EXCEPT ![t] =
                 IF d.exc = "ExpiredSignatureError"
                 THEN Finish(thr[t], RESPONSE_STATUS("UNAUTHORIZED"),
                             ERROR_MESSAGES("TOKEN_EXPIRED"))
                 ELSE IF d.exc \in InvalidTokenError
                 THEN Finish(thr[t], RESPONSE_STATUS("UNAUTHORIZED"),
                             ERROR_MESSAGES("INVALID_TOKEN"))
                 ELSE IF thr[t].op = "protected"
                 THEN [Finish(thr[t], 200, "") EXCEPT !.ran = TRUE]
                 ELSE [thr[t] EXCEPT !.pc = "add"]]
    /\ UNCHANGED <<program, current_secret_key, current_token, token_blacklist,
                   config_cache, urandom, now, issued, consumed, last>>

\* line 92: token_blacklist.add(token); the handler is entered next
CGuardAdd(t) ==
    /\ thr[t].pc = "add"
    /\ token_blacklist' = token_blacklist \cup {thr[t].header.cred}
    /\ thr' = [thr EXCEPT ![t].pc = "chk", ![t].ran = TRUE]
    /\ UNCHANGED <<program, current_secret_key, current_token, config_cache,
                   urandom, now, issued, consumed, last>>

\* load_configuration, lines 53-55: the cache test
CLoadCheck(t) ==
    /\ thr[t].pc = "chk"
    /\ thr' = [thr EXCEPT
                 ![t].ts = now * 1000,
                 ![t].pc = IF meta_truthy(config_cache.metadata)
                              /\ (now * 1000 - config_cache.last_updated)
                                    < CACHE_DURATION_MS
                           THEN "meta" ELSE "load"]
    /\ UNCHANGED <<program, current_secret_key, current_token, token_blacklist,
                   config_cache, urandom, now, issued, consumed, last>>

\* lines 56-65: read the file, ask git, config_cache.update(...)
CLoad(t) ==
    \E file \in Files, git \in Gits :
        LET parsed == json_loads(file)
            g == get_git_sha(git)
            failed == file = "absent" \/ parsed.exc # "none" \/ g.exc # "none"
        IN
        /\ thr[t].pc = "load"
        /\ config_cache' = IF failed THEN config_cache
                           ELSE [metadata |-> parsed.value, sha |-> g.sha,
                                 last_updated |-> thr[t].ts]
        /\ thr' = [thr EXCEPT ![t] =
                     IF failed THEN Finish(thr[t], 500, "Internal Server Error")
                     ELSE [thr[t] EXCEPT !.pc = "meta"]]
        /\ UNCHANGED <<program, current_secret_key, current_token,
                       token_blacklist, urandom, now, issued, consumed, last>>

\* line 145: metadata = config["metadata"], config being config_cache
\* itself; shaThen notes the revision of the entry the metadata is read from
CReadMeta(t) ==
    /\ thr[t].pc = "meta"
    /\ thr' = [thr EXCEPT ![t].pc = "sha",
                          ![t].meta = config_cache.metadata,
                          ![t].shaThen = config_cache.sha]
    /\ UNCHANGED <<program, current_secret_key, current_token, token_blacklist,
                   config_cache, urandom, now, issued, consumed, last>>

\* line 146: sha = config["sha"]
CReadSha(t) ==
    /\ thr[t].pc = "sha"
    /\ thr' = [thr EXCEPT ![t].pc = "resp", ![t].sha = config_cache.sha]
    /\ UNCHANGED <<program, current_secret_key, current_token, token_blacklist,
                   config_cache, urandom, now, issued, consumed, last>>

\* lines 147-160: current_token = None and the response
CRespond(t) ==
    /\ thr[t].pc = "resp"
    /\ current_token' = None
    /\ thr' = [thr EXCEPT ![t] =
                 IF thr[t].meta.size < 2
                 THEN Finish(thr[t], 500, "Internal Server Error")
                 ELSE [Finish(thr[t], 200, "") EXCEPT
                          !.app = [description |-> thr[t].meta.description,
                                   version |-> <<thr[t].meta.version, BUILD_NUMBER>>,
                                   sha |-> thr[t].sha]]]
    /\ UNCHANGED <<program, current_secret_key, token_blacklist, config_cache,
                   urandom, now, issued, consumed, last>>

NextConc ==
    \/ \E t \in Threads :
          \/ CLogin(t) \/ CRefresh(t) \/ CGen(t) \/ CEnc(t) \/ CRet(t)
          \/ CGuardCheck(t) \/ CGuardDecode(t) \/ CGuardAdd(t)
          \/ CLoadCheck(t) \/ CLoad(t) \/ CReadMeta(t) \/ CReadSha(t)
          \/ CRespond(t)
    \/ Tick

SpecConc == Init /\ [][NextConc]_vars

---------------------------------------------------------------------------
(* Properties *)

Guarded == {"protected", "status"}
\* the token the last request presented
Cred == last.header.cred
HasToken == last.header.words = 2 /\ truthy(Cred)
\* the step serves a request to the route op
Serves(op) == last'.seq # last.seq /\ last'.op = op
Reused == ERROR_MESSAGES("TOKEN_REUSED")

\* C1: once the /status handler has been entered with a token, every later
\* /status request presenting that token is answered 403 "already used" and
\* the handler is not entered, whatever was served in between.
C1_ReplayPrevention ==
    [][\A tk \in consumed :
          (Serves("status") /\ last'.header = Bearer(tk))
          => (last'.status = 403 /\ last'.error = Reused /\ ~last'.ran)]_vars

\* a replay on /status was refused after a later login/refresh
C1_Witness ==
    /\ last.op = "status" /\ Cred \in consumed /\ Cred # Latest
    /\ last.status = 403 /\ last.error = Reused

\* C2 (as stated): a token consumed on /status that still verifies under the
\* live secret passes the guard of /protected.
C2_ExemptPassesLedgered ==
    [][\A tk \in consumed :
          (Serves("protected") /\ last'.header = Bearer(tk)
           /\ tk \in token_blacklist
           /\ jwt_decode(tk, current_secret_key, TRUE, now).exc = "none")
          => (last'.status = 200 /\ last'.ran)]_vars

\* C2 (amended): a token consumed on /status that still verifies under the
\* live secret is answered 403 "already used" on /protected too.
C2_ExemptRejectsLedgered ==
    [][\A tk \in consumed :
          (Serves("protected") /\ last'.header = Bearer(tk)
           /\ tk \in token_blacklist
           /\ jwt_decode(tk, current_secret_key, TRUE, now).exc = "none")
          => (last'.status = 403 /\ last'.error = Reused /\ ~last'.ran)]_vars

\* the live token, consumed on /status, was refused on /protected
C2_Witness ==
    /\ last.op = "protected" /\ Cred \in consumed /\ Cred = Latest
    /\ jwt_decode(Cred, current_secret_key, TRUE, now).exc = "none"
    /\ last.status = 403

\* C3: a /protected request never changes the blacklist, and a /protected
\* request that directly follows a successful one with the same token
\* succeeds again.
C3_ExemptNonConsuming ==
    [][Serves("protected")
       => /\ token_blacklist' = token_blacklist
          /\ (last.op = "protected" /\ last.status = 200
              /\ last'.header = last.header)
             => (last'.status = 200 /\ last'.ran)]_vars

\* the same token was accepted by /protected twice in a row, unrecorded
C3_Witness ==
    /\ last.op = "protected" /\ last.again /\ last.status = 200 /\ last.ran
    /\ Cred \notin token_blacklist

\* C4 (as stated): after login returns T1 the first GET /protected with T1
\* answers 200 and the next GET /protected with T1 answers 403 "already used".
C4_SecondProtected403 ==
    [][Serves("protected")
       => /\ (last.op = "login" /\ last'.header = Bearer(last.token))
             => last'.status = 200
          /\ (last.op = "protected" /\ last.status = 200
              /\ last.header = Bearer(Latest) /\ last'.header = last.header)
             => (last'.status = 403 /\ last'.error = Reused)]_vars

\* C4 (amended): after login returns T1 the first GET /protected with T1
\* answers 200 and the next GET /protected with T1 answers 200 again.
C4_SecondProtected200 ==
    [][Serves("protected")
       => /\ (last.op = "login" /\ last'.header = Bearer(last.token))
             => last'.status = 200
          /\ (last.op = "protected" /\ last.status = 200
              /\ last.header = Bearer(Latest) /\ last'.header = last.header)
             => (last'.status = 200 /\ last'.error = "")]_vars

\* the second GET /protected in a row with the issued token answered 200
C4_Witness ==
    /\ issued # <<>> /\ last.header = Bearer(Latest)
    /\ last.op = "protected" /\ last.again /\ last.status = 200

\* C5: a guarded request whose token is in the blacklist and does not decode
\* under the live secret is answered 403 "already used".
C5_LedgerBeforeSignature ==
    (/\ last.op \in Guarded /\ HasToken
     /\ Cred \in last.blacklist
     /\ jwt_decode(Cred, last.key, TRUE, last.at).exc # "none")
    => (last.status = 403 /\ last.error = Reused)

\* a blacklisted token signed under a rotated secret was answered 403
C5_Witness ==
    /\ last.op \in Guarded /\ HasToken /\ Cred \in last.blacklist
    /\ jwt_decode(Cred, last.key, TRUE, last.at).exc = "InvalidSignatureError"
    /\ last.status = 403

\* C6: only the token of the most recent login/refresh verifies under the
\* live secret; every earlier one fails signature verification, is refused
\* by the guard on both routes and is refused by refresh.
C6_SingleActiveSession ==
    /\ \A tk \in Presentable :
          jwt_decode(tk, current_secret_key, FALSE, now).exc = "none"
          => tk = Latest
    /\ \A i \in 1..(Len(issued) - 1) :
          jwt_decode(issued[i].token, current_secret_key, FALSE, now).exc
             = "InvalidSignatureError"
    /\ (last.op \in Guarded /\ Cred \in IssuedTokens /\ Cred # last.latest)
       => (~last.ran /\ last.status \in {401, 403})
    /\ (last.op = "refresh" /\ Cred \in IssuedTokens /\ Cred # last.latest)
       => (last.status # 200 /\ last.token = None
           /\ current_secret_key = last.key)

\* after a second issuance the first token, never consumed, was refused
C6_Witness ==
    /\ Len(issued) >= 2 /\ last.op \in Guarded
    /\ Cred = issued[1].token /\ Cred \notin last.blacklist
    /\ last.status = 401 /\ ~last.ran

C8_RefreshInvalid403 ==
    (/\ last.op = "refresh" /\ HasToken
     /\ jwt_decode(Cred, last.key, FALSE, last.at).exc # "none")
    => /\ last.status = 403
       /\ current_secret_key = last.key
       /\ token_blacklist = last.blacklist

\* C9 (as stated): every issued token expires TOKEN_EXPIRATION_TIME after
\* issuance, and from then on the guard answers 401 "expired" to the live,
\* unrecorded token.
C9_TokensExpire ==
    /\ \A i \in 1..Len(issued) :
          issued[i].token.payload.exp = issued[i].at + TOKEN_EXPIRATION_TIME
    /\ \A i \in 1..Len(issued) :
          (/\ last.op \in Guarded /\ last.header = Bearer(issued[i].token)
           /\ issued[i].token = last.latest
           /\ issued[i].token \notin last.blacklist
           /\ last.at >= issued[i].at + TOKEN_EXPIRATION_TIME)
          => (last.status = 401
              /\ last.error = ERROR_MESSAGES("TOKEN_EXPIRED"))

\* why the guard refuses the last request, from the state it met
FailureKind ==
    IF ~HasToken THEN "missing"
    ELSE IF Cred \in last.blacklist THEN "used"
    ELSE jwt_decode(Cred, last.key, TRUE, last.at).exc

\* C10 (as stated): the guard answers a missing token with 401, a recorded
\* token with 403, an expired token with 401 and an invalid signature or a
\* malformed token with 403.
C10_StatusMapping ==
    (last.op \in Guarded /\ last.header.words # 1)
    => /\ FailureKind = "missing" => last.status = 401
       /\ FailureKind = "used" => last.status = 403
       /\ FailureKind = "ExpiredSignatureError" => last.status = 401
       /\ FailureKind \in {"InvalidSignatureError", "DecodeError"}
          => last.status = 403

\* the cached entry a load_configuration call at time t reuses
Fresh(cache, t) ==
    /\ meta_truthy(cache.metadata)
    /\ t * 1000 - cache.last_updated < CACHE_DURATION_MS

\* C11: a /status handler reads ./metadata.json and asks git only when the
\* cache holds no (non-empty) metadata or the entry is at least
\* CACHE_DURATION_MS old; within that time the entry is returned as it is,
\* whatever git holds by then; after that time a successful reload stores
\* and returns the revision git holds now.
C11_CacheTTL ==
    [][(Serves("status") /\ last'.ran)
       => /\ last'.read => ~Fresh(config_cache, now)
          /\ Fresh(config_cache, now)
             => /\ ~last'.read
                /\ config_cache' = config_cache
                /\ last'.app.sha = config_cache.sha
                /\ last'.app.description = config_cache.metadata.description
          /\ (~Fresh(config_cache, now) /\ last'.file \in {"{}", "doc1"}
              /\ last'.git.rc = 0)
             => /\ last'.read
                /\ config_cache'.sha = strip(last'.git.stdout)
                /\ config_cache'.metadata = json_loads(last'.file).value
                /\ config_cache'.last_updated = now * 1000]_vars

\* a /status handler was served from the cache although git held another
\* revision by then
C11_Witness ==
    /\ last.op = "status" /\ last.ran /\ ~last.read /\ last.status = 200
    /\ last.git.rc = 0 /\ strip(last.git.stdout) # config_cache.sha
    /\ last.app.sha = config_cache.sha

\* C12 (as stated): when a reload is needed and the file is missing or does
\* not parse, or git fails, /status answers 500 and the cache is unchanged.
C12_LoadFailure ==
    [][(/\ Serves("status") /\ last'.ran
        /\ ~Fresh(config_cache, now)
        /\ (last'.file \in {"absent", "{"} \/ last'.git.rc # 0))
       => (last'.status = 500 /\ config_cache' = config_cache)]_vars

\* C13: the handler of a guarded route is entered only if the request
\* carried a token that was not in the blacklist and decoded under the live
\* secret; otherwise nothing the handler does has happened.
C13_ShortCircuit ==
    [][(Serves("status") \/ Serves("protected"))
       => LET h == last'.header IN
          /\ last'.ran
             => /\ h.words = 2 /\ truthy(h.cred)
                /\ h.cred \notin token_blacklist
                /\ jwt_decode(h.cred, current_secret_key, TRUE, now).exc = "none"
          /\ ~last'.ran
             => (~last'.read /\ last'.app = NoApp
                 /\ UNCHANGED <<config_cache, current_token>>)]_vars

\* a token with a bad signature was refused and no handler was entered
C13_Witness ==
    /\ last.op \in Guarded /\ ~last.ran /\ HasToken
    /\ Cred \notin last.blacklist
    /\ jwt_decode(Cred, last.key, TRUE, last.at).exc = "InvalidSignatureError"
    /\ last.error # ""

\* a /status request of thread t has passed the guard
PassedStatus(t) == thr[t].op = "status" /\ thr[t].ran
\* thread t has answered 200 to a login or refresh
Returned(t) ==
    thr[t].pc = "done" /\ thr[t].op \in {"login", "refresh"} /\ thr[t].status = 200
VerifiesLive(tok) == jwt_decode(tok, current_secret_key, FALSE, 0).exc = "none"

\* C14: of two /status requests that present the same token and are handled
\* at the same time, at most one passes the guard.
C14_AtMostOnePasses ==
    \A a, b \in Threads :
        (a # b /\ PassedStatus(a) /\ PassedStatus(b))
            => thr[a].header # thr[b].header

\* C15: the token a login or refresh call returns is signed with the secret
\* that same call generated, and two calls in progress together never both
\* return a token that verifies under the live secret.
C15_OwnSecret ==
    /\ \A t \in Threads :
          Returned(t) => thr[t].tok = jwt_encode(thr[t].payload, thr[t].key)
    /\ \A a, b \in Threads :
          (a # b /\ Returned(a) /\ Returned(b))
              => ~(VerifiesLive(thr[a].tok) /\ VerifiesLive(thr[b].tok))

\* C16: the revision in a /status response is the revision of the cache
\* entry from which the response's metadata was read.
C16_OneLoad ==
    \A t \in Threads :
        (thr[t].pc = "done" /\ thr[t].op = "status" /\ thr[t].status = 200)
            => thr[t].app.sha = thr[t].shaThen

\* C17: the blacklist only grows, and only by the presented token of a
\* /status request that passed under the live secret; login, refresh,
\* /protected and refused requests leave it unchanged.
C17_LedgerFrame ==
    [][/\ token_blacklist \subseteq token_blacklist'
       /\ token_blacklist' # token_blacklist
          => /\ Serves("status") /\ last'.ran
             /\ token_blacklist' = token_blacklist \cup {last'.header.cred}
             /\ last'.header.cred = Latest
             /\ jwt_decode(last'.header.cred, current_secret_key, TRUE, now).exc
                   = "none"
       /\ (\/ Serves("login") \/ Serves("refresh") \/ Serves("protected")
           \/ Serves("index") \/ (Serves("status") /\ ~last'.ran))
          => token_blacklist' = token_blacklist]_vars

\* a second token was recorded next to the first
C17_Witness ==
    /\ last.op = "status" /\ last.ran
    /\ last.blacklist # {} /\ Cred \notin last.blacklist
    /\ token_blacklist = last.blacklist \cup {Cred}

\* C18: a token with which the /status handler is entered is in the
\* blacklist whatever the handler answers, and when the handler answered
\* 500 the next /status request with that token is answered 403.
C18_ConsumedBeforeHandler ==
    [][Serves("status")
       => /\ last'.ran => last'.header.cred \in token_blacklist'
          /\ (last.op = "status" /\ last.ran /\ last.status = 500
              /\ last'.header = last.header)
             => (last'.status = 403 /\ last'.error = Reused /\ ~last'.ran)]_vars

\* the only handler run failed to load the configuration and the retry
\* with the same token was answered 403
C18_Witness ==
    /\ last.op = "status" /\ last.again /\ ~last.ran /\ last.status = 403
    /\ consumed = {Cred} /\ config_cache.metadata = NoneMeta

\* C19: refresh leaves the blacklist as it is, and accepts the live token
\* although it is in the blacklist: the new token verifies under the new
\* secret and is not in the blacklist.
C19_RefreshIgnoresLedger ==
    last.op = "refresh"
    => /\ token_blacklist = last.blacklist
       /\ (HasToken /\ Cred = last.latest /\ Cred \in last.blacklist)
          => /\ last.status = 200
             /\ last.token \notin token_blacklist
             /\ jwt_decode(last.token, current_secret_key, TRUE, now).exc = "none"

\* a token consumed on /status was exchanged by refresh
C19_Witness ==
    /\ last.op = "refresh" /\ last.status = 200
    /\ Cred \in consumed /\ Cred \in last.blacklist /\ Cred \notin {last.token}

=============================================================================
